---- MODULE Spec2Model ----
(***************************************************************************)
(* One-time-message service: the Messages store over SQLite (single-table  *)
(* backend/src/index.ts and the split messages/keys variant), its three    *)
(* HTTP handlers, the expiry sweep, and the XOR codec shared by            *)
(* Messages.set and the viewer page.                                       *)
(*                                                                         *)
(* Granularity: one action per SQL statement or clock read.  The store is  *)
(* a database file (./data/messages.db); no handler wraps its statements   *)
(* in a transaction, so statements of different requests and of the sweep  *)
(* are the units that the database serialises.                             *)
(*                                                                         *)
(* Timestamps are ISO-8601 strings of fixed width (toISOString), which     *)
(* SQLite compares as TEXT; that order is the order of the instants, so    *)
(* they are modelled as integers in milliseconds.                          *)
(***************************************************************************)
EXTENDS Integers, Sequences, FiniteSets, TLC

VARIABLES
    variant,    \* "single" (backend/src/index.ts) or "split" (messages + keys tables)
    now,        \* the wall clock, ms
    messages,   \* table messages: id -> row or null
    keys,       \* table keys (split variant): id -> row or null
    req,        \* the HTTP requests in flight, one per caller
    sweep,      \* the purgeExpired run in flight
    nextSn,     \* history: number of records inserted so far
    life,       \* history: per id, the record the last completed create returned
    lastSweep,  \* history: the last completed sweep, until a write or a clock tick
    codec,      \* the codec exercised alone (SpecCodec)
    viewer      \* the MessageContent component of the viewer page (SpecViewer)

vars == <<variant, now, messages, keys, req, sweep, nextSn, life, lastSweep, codec, viewer>>

----------------------------------------------------------------------------
\* Bounds of the model

\* ids that crypto.randomBytes(16).toString('hex') may produce
Ids == {"a1", "b2"}
\* concurrent HTTP callers
Callers == {"c1", "c2"}
\* records inserted in one behaviour
MaxCreates == 2
\* single milliseconds the clock advances past a whole number of TTLs
MaxMs == 1
\* whole TTLs the clock advances
MaxDays == 1
\* bytes crypto.randomBytes may produce
RandomBytes == {10, 97}
\* bytes crypto.randomBytes produces in the store's specifications
StoreBytes == {97}
\* longest plaintext given to the codec alone
MaxLen == 2
\* runs of MessageContent's effect in one behaviour
MaxEffects == 3
\* UTF-16 code units of the plaintexts given to the codec alone: "1", "a", U+FFFF
CodeUnits == {49, 97, 65535}
\* the caller whose requests the single server process is handed, one at a time
SerialCallers == {"c1"}

\* JavaScript null / no row
null == [null |-> TRUE]
\* an undefined header
undefined == "undefined"
\* a NULL column
SqlNull == "NULL"
\* POST /message requests: body "a" with no headers of interest; body "<x>"
\* through a proxy that sets x-real-ip, with a user agent
Posts ==
    { [body |-> <<97>>,
       headers |-> [userAgent |-> undefined, xForwardedFor |-> undefined,
                    xRealIp |-> undefined]],
      [body |-> <<60, 120, 62>>,
       headers |-> [userAgent |-> "ua", xForwardedFor |-> undefined,
                    xRealIp |-> "ip"]] }
\* the interleaved specification: the callers that post, and what they post
ConcurrentWriters == {"c1"}
ConcurrentPosts == {post \in Posts : post.headers.userAgent # undefined}

----------------------------------------------------------------------------
\* The codec

RECURSIVE Xor(_, _)
\* a ^ b on non-negative integers
Xor(a, b) ==
    IF a = 0 THEN b
    ELSE IF b = 0 THEN a
    ELSE (((a % 2) + (b % 2)) % 2) + 2 * Xor(a \div 2, b \div 2)

\* the character of one hex digit, as Buffer.toString('hex') writes it
HexDigit(d) == IF d < 10 THEN 48 + d ELSE 87 + d

\* Buffer.toString('hex'): two lower-case hex digits per byte
ToHex(bytes) ==
    [i \in 1..(2 * Len(bytes)) |->
        LET b == bytes[(i + 1) \div 2]
        IN  IF i % 2 = 1 THEN HexDigit(b \div 16) ELSE HexDigit(b % 16)]

\* crypto.randomBytes(n): any n bytes
randomBytes(n) == [1..n -> RandomBytes]

\* the keys generateKey(length) may return
generateKey(length) == {ToHex(bytes) : bytes \in randomBytes(length)}

\* the keys drawn in the store's specifications: n equal random bytes
SampledKeys(length) ==
    {ToHex([i \in 1..length |-> b]) : b \in StoreBytes}

\* Messages.set: message.split('').map((char, i) => char ^ key[i % key.length]).join('')
\* (sequences are 1-based: index i of the code is i - 1 here)
Encrypt(message, key) ==
    [i \in 1..Len(message) |-> Xor(message[i], key[((i - 1) % Len(key)) + 1])]

\* fetchMessage with the key index off by one: key.charCodeAt((i + 1) % key.length)
DecryptShifted(encryptedMessage, key) ==
    [i \in 1..Len(encryptedMessage) |->
        Xor(encryptedMessage[i], key[(i % Len(key)) + 1])]

\* MessageContent.fetchMessage: the same transform on the client
Decrypt(encryptedMessage, key) ==
    [i \in 1..Len(encryptedMessage) |->
        Xor(encryptedMessage[i], key[((i - 1) % Len(key)) + 1])]

\* escapeHtml of the xss package: "<" becomes "&lt;", ">" becomes "&gt;"
EscapeChar(ch) ==
    IF ch = 60 THEN <<38, 108, 116, 59>>
    ELSE IF ch = 62 THEN <<38, 103, 116, 59>>
    ELSE <<ch>>

RECURSIVE xss(_)
\* xss(text) of the xss package on text that holds no tag of its white list:
\* the text, and every tag that is not on the list, goes through escapeHtml
xss(text) ==
    IF text = << >> THEN << >>
    ELSE EscapeChar(Head(text)) \o xss(Tail(text))

----------------------------------------------------------------------------
\* The store's statements

\* const expires = 60 * 60 * 24, in seconds
expires == 60 * 60 * 24

\* new Date(Date.now() + expires * 1000)
ExpiresAt(t) == t + expires * 1000

\* userAgent = headers['user-agent'] ?? null
UserAgent(headers) ==
    IF headers.userAgent = undefined THEN SqlNull ELSE headers.userAgent

\* ipWriter = headers['x-forwarded-for'] || headers['x-real-ip'] || null
IpWriter(headers) ==
    IF headers.xForwardedFor # undefined /\ headers.xForwardedFor # ""
    THEN headers.xForwardedFor
    ELSE IF headers.xRealIp # undefined /\ headers.xRealIp # ""
         THEN headers.xRealIp
         ELSE SqlNull

\* the row INSERT INTO messages writes (sn and body are history columns: the
\* serial number of the insert and the body the client posted)
MessageRow(r) ==
    LET base == [id |-> r.id, message |-> Encrypt(r.message, r.key),
                 createdAt |-> r.createdAt, expiresAt |-> r.expiresAt,
                 ipReader |-> SqlNull, ipWriter |-> IpWriter(r.headers),
                 userAgent |-> UserAgent(r.headers),
                 sn |-> r.sn, body |-> r.body]
    IN  IF variant = "single" THEN base @@ [key |-> r.key] ELSE base

\* the row INSERT INTO keys writes
KeyRow(r) == [id |-> r.id, key |-> r.key]

\* SELECT * FROM messages WHERE id = $id
SelectMessage(id) == messages[id]

\* SELECT * FROM keys WHERE id = $id
SelectKey(id) == keys[id]

\* split variant, Messages.get: null unless both rows are there, else
\* { ...message, ...key, id: message.id }
MergeRows(message, key) ==
    IF message = null \/ key = null THEN null
    ELSE [id |-> message.id] @@ key @@ message

\* Messages.get(id) run without interruption on tables (msgs, kys)
GetOn(msgs, kys, id) ==
    IF variant = "single" THEN msgs[id] ELSE MergeRows(msgs[id], kys[id])

\* Messages.get(id) on the current store
Get(id) == GetOn(messages, keys, id)

\* destroy without its WHERE clause: DELETE FROM messages
DestroyEveryMessage(msgs, id) ==
    IF variant = "single" THEN [i \in Ids |-> null] ELSE msgs

\* destroy written as a soft delete that records the reader:
\* UPDATE messages SET ipReader = $ip WHERE id = $id
MarkRead(msgs, id) ==
    [msgs EXCEPT ![id] = IF @ = null THEN null ELSE [@ EXCEPT !.ipReader = "ip"]]

\* Messages.destroy(id), the messages table afterwards:
\* single: DELETE FROM messages WHERE id = $id; split: untouched
DestroyMessages(msgs, id) ==
    IF variant = "single" THEN [msgs EXCEPT ![id] = null] ELSE msgs

\* Messages.destroy(id), the keys table afterwards:
\* split: DELETE FROM keys WHERE id = $id
DestroyKeys(kys, id) ==
    IF variant = "split" THEN [kys EXCEPT ![id] = null] ELSE kys

\* purgeExpired without its call of deleteExpiredKeys: no row of keys is deleted
DeleteNoKeys(msgs, kys, date) == kys

\* deleteExpiredKeys without the subquery's WHERE clause:
\* DELETE FROM keys WHERE id NOT IN (SELECT id FROM messages)
DeleteOrphanKeys(msgs, kys, date) ==
    [i \in Ids |-> IF msgs[i] # null THEN kys[i] ELSE null]

\* DELETE FROM keys WHERE id NOT IN (SELECT id FROM messages WHERE expiresAt > $date)
DeleteExpiredKeys(msgs, kys, date) ==
    [i \in Ids |->
        IF msgs[i] # null /\ msgs[i].expiresAt > date THEN kys[i] ELSE null]

\* purgeExpired without its second statement: no row of messages is deleted
DeleteNoMessages(msgs, date) == msgs

\* the sweep written against the wrong column:
\* DELETE FROM messages WHERE createdAt <= $date
DeleteCreatedMessages(msgs, date) ==
    [i \in Ids |->
        IF msgs[i] # null /\ msgs[i].createdAt <= date THEN null ELSE msgs[i]]

\* DELETE FROM messages WHERE expiresAt < $date
DeleteExpiredMessages(msgs, date) ==
    [i \in Ids |->
        IF msgs[i] # null /\ msgs[i].expiresAt < date THEN null ELSE msgs[i]]

\* a table declared without its key: id TEXT, so every INSERT is accepted
NoPrimaryKey(table, id) == FALSE

\* id TEXT PRIMARY KEY: an INSERT of a row whose id the table already holds
\* is refused (SQLITE_CONSTRAINT_PRIMARYKEY) and run() throws
PrimaryKeyTaken(table, id) == table[id] # null

----------------------------------------------------------------------------
\* The handlers' responses

NotFound == [status |-> 404, body |-> null]

\* GET /available/:id: messages.get(id) ? 'exist' : error(404, ...)
AvailableResponse(row) ==
    IF row # null THEN [status |-> 200, body |-> [exist |-> TRUE]] ELSE NotFound

\* GET /message/:id: message ?? error(404, ...)
MessageResponse(row) ==
    IF row # null THEN [status |-> 200, body |-> row] ELSE NotFound

\* GET /available/:id written as a copy of GET /message/:id: it destroys too
AfterGetDestroy(op) == "destroy"

\* what the handler does once messages.get(id) has returned:
\* GET /message/:id goes on to messages.destroy(id), GET /available/:id answers
AfterGet(op) == IF op = "message" THEN "destroy" ELSE "done"

\* the response of a GET handler for the row its get returned
Response(op, row) ==
    IF op = "message" THEN MessageResponse(row) ELSE AvailableResponse(row)

----------------------------------------------------------------------------
\* Initial state: empty tables (CREATE TABLE IF NOT EXISTS on a new file)

idle == [op |-> "idle"]

NoCodec == [stage |-> "off"]

\* no MessageContent component is mounted
NoViewer == [mounted |-> FALSE]

Init ==
    /\ variant \in {"single", "split"}
    /\ now = 0
    /\ messages = [i \in Ids |-> null]
    /\ keys = [i \in Ids |-> null]
    /\ req = [c \in Callers |-> idle]
    /\ sweep = idle
    /\ nextSn = 0
    /\ life = [i \in Ids |-> null]
    /\ lastSweep = null
    /\ codec = NoCodec
    /\ viewer = NoViewer

\* no handler and no sweep is running
Quiet == sweep = idle /\ \A c \in Callers : req[c] = idle

----------------------------------------------------------------------------
\* The clock

\* one millisecond passes
TickMs ==
    /\ (now % ExpiresAt(0)) < MaxMs
    /\ now' = now + 1
    /\ lastSweep' = null
    /\ UNCHANGED <<variant, messages, keys, req, sweep, nextSn, life, codec, viewer>>

\* a whole TTL passes; a handler or a sweep in flight ends long before that
TickTtl ==
    /\ Quiet
    /\ (now \div ExpiresAt(0)) < MaxDays
    /\ now' = ExpiresAt(now)
    /\ lastSweep' = null
    /\ UNCHANGED <<variant, messages, keys, req, sweep, nextSn, life, codec, viewer>>

----------------------------------------------------------------------------
\* POST /message and Messages.set

\* the request after its handler's next statement
Step(c, r) == req' = [req EXCEPT ![c] = r]

\* the request answered: the response waits to be sent
Done(c, response) ==
    Step(c, [op |-> req[c].op, pc |-> "done", id |-> req[c].id, at |-> req[c].at,
             response |-> response])

\* history: a request wrote to the store, so the next sweep does not follow the
\* last one directly (nor does it once the clock has moved: its `now` differs)
NoteWrite ==
    lastSweep' = IF <<messages', keys'>> = <<messages, keys>> THEN lastSweep ELSE null

\* POST /message arrives: message = xss(body.message); set() draws the key and
\* the id, reads the headers and reads the clock for createdAt
PostMessage(c, body, headers) ==
    /\ req[c] = idle
    /\ nextSn < MaxCreates
    /\ nextSn' = nextSn + 1
    /\ \E key \in SampledKeys(Len(xss(body))), id \in Ids :
          Step(c, [op |-> "post", pc |-> "expires", id |-> id, at |-> now, body |-> body,
                   message |-> xss(body), key |-> key, headers |-> headers,
                   createdAt |-> now, sn |-> nextSn + 1])
    /\ UNCHANGED <<variant, now, messages, keys, sweep, life, lastSweep, codec, viewer>>

\* set() reads the clock a second time for expiresAt
SetExpires(c) ==
    /\ req[c].op = "post" /\ req[c].pc = "expires"
    /\ Step(c, [req[c] EXCEPT !.pc = "insert"] @@ [expiresAt |-> ExpiresAt(now)])
    /\ UNCHANGED <<variant, now, messages, keys, sweep, nextSn, life, lastSweep, codec, viewer>>

\* history: create returned this record's id
Born(r) ==
    [sn |-> r.sn, expiresAt |-> r.expiresAt, body |-> r.body, consumed |-> FALSE]

\* INSERT INTO messages; id is the PRIMARY KEY, so a second row with the id is
\* refused and the exception ends the request (500)
SetInsert(c) ==
    LET r == req[c] IN
    /\ r.op = "post" /\ r.pc = "insert"
    /\ IF PrimaryKeyTaken(messages, r.id)
       THEN /\ Done(c, [status |-> 500, body |-> null])
            /\ UNCHANGED <<messages, life>>
       ELSE /\ messages' = [messages EXCEPT ![r.id] = MessageRow(r)]
            /\ IF variant = "single"
               THEN /\ Done(c, [status |-> 200, body |-> [id |-> r.id]])
                    /\ life' = [life EXCEPT ![r.id] = Born(r)]
               ELSE /\ Step(c, [r EXCEPT !.pc = "insertKey"])
                    /\ UNCHANGED life
    /\ UNCHANGED <<variant, now, keys, sweep, nextSn, codec, viewer>>
    /\ NoteWrite

\* split variant: INSERT INTO keys, then return id
SetInsertKey(c) ==
    LET r == req[c] IN
    /\ r.op = "post" /\ r.pc = "insertKey"
    /\ IF PrimaryKeyTaken(keys, r.id)
       THEN /\ Done(c, [status |-> 500, body |-> null])
            /\ UNCHANGED <<keys, life>>
       ELSE /\ keys' = [keys EXCEPT ![r.id] = KeyRow(r)]
            /\ Done(c, [status |-> 200, body |-> [id |-> r.id]])
            /\ life' = [life EXCEPT ![r.id] = Born(r)]
    /\ UNCHANGED <<variant, now, messages, sweep, nextSn, codec, viewer>>
    /\ NoteWrite

----------------------------------------------------------------------------
\* GET /available/:id and GET /message/:id

\* the handler calls messages.get(id): the single-table get is one SELECT, the
\* split get reads messages here and keys in its next statement
BeginGet(c, op, id) ==
    /\ req[c] = idle
    /\ IF variant = "single"
       THEN IF AfterGet(op) = "done"
            THEN Step(c, [op |-> op, pc |-> "done", id |-> id, at |-> now,
                          response |-> Response(op, SelectMessage(id))])
            ELSE Step(c, [op |-> op, pc |-> AfterGet(op), id |-> id, at |-> now,
                          row |-> SelectMessage(id)])
       ELSE Step(c, [op |-> op, pc |-> "getKey", id |-> id, at |-> now,
                     message |-> SelectMessage(id)])
    /\ UNCHANGED <<variant, now, messages, keys, sweep, nextSn, life, lastSweep, codec, viewer>>

\* GET /available/:id arrives
Available(c, id) == BeginGet(c, "available", id)

\* GET /message/:id arrives
Message(c, id) == BeginGet(c, "message", id)

\* split variant: get reads the keys table and merges the two rows
GetKey(c) ==
    LET r == req[c]
        row == MergeRows(r.message, SelectKey(r.id))
    IN
    /\ r.op \in {"available", "message"} /\ r.pc = "getKey"
    /\ IF AfterGet(r.op) = "done"
       THEN Done(c, Response(r.op, row))
       ELSE Step(c, [op |-> r.op, pc |-> AfterGet(r.op), id |-> r.id, at |-> r.at,
                     row |-> row])
    /\ UNCHANGED <<variant, now, messages, keys, sweep, nextSn, life, lastSweep, codec, viewer>>

\* history: the record a fetch delivered is consumed
Consume(id, row) ==
    IF row # null /\ life[id] # null /\ life[id].sn = row.sn
    THEN [life EXCEPT ![id].consumed = TRUE]
    ELSE life

\* messages.destroy(id), then the handler answers with what get returned
Destroy(c) ==
    LET r == req[c] IN
    /\ r.op \in {"available", "message"} /\ r.pc = "destroy"
    /\ messages' = DestroyMessages(messages, r.id)
    /\ keys' = DestroyKeys(keys, r.id)
    /\ Done(c, Response(r.op, r.row))
    /\ life' = Consume(r.id, r.row)
    /\ UNCHANGED <<variant, now, sweep, nextSn, codec, viewer>>
    /\ NoteWrite

\* the response leaves; the caller may send another request
Respond(c) ==
    /\ req[c].op # "idle" /\ req[c].pc = "done"
    /\ Step(c, idle)
    /\ UNCHANGED <<variant, now, messages, keys, sweep, nextSn, life, lastSweep, codec, viewer>>

----------------------------------------------------------------------------
\* Messages.purgeExpired, invoked by the periodic sweep

\* const now = new Date().toISOString()
PurgeNow ==
    /\ sweep = idle
    /\ sweep' = [op |-> "purge", date |-> now, removed |-> FALSE,
                 pc |-> IF variant = "split" THEN "keys" ELSE "messages"]
    /\ UNCHANGED <<variant, now, messages, keys, req, nextSn, life, lastSweep, codec, viewer>>

\* split variant: this.deleteExpiredKeys(now, db)
PurgeKeys ==
    /\ sweep.op = "purge" /\ sweep.pc = "keys"
    /\ keys' = DeleteExpiredKeys(messages, keys, sweep.date)
    /\ sweep' = [sweep EXCEPT !.pc = "messages", !.removed = (keys' # keys)]
    /\ UNCHANGED <<variant, now, messages, req, nextSn, life, lastSweep, codec, viewer>>

\* history: one more sweep completed; runs counts the sweeps with this date
\* since the store was last written by a request, removed tells whether the
\* first of them deleted anything
SweepDone(removed) ==
    IF lastSweep # null /\ lastSweep.date = sweep.date
    THEN [lastSweep EXCEPT !.runs = IF @ < 2 THEN @ + 1 ELSE @]
    ELSE [date |-> sweep.date, runs |-> 1, removed |-> removed]

\* DELETE FROM messages WHERE expiresAt < $date; the sweep is over
PurgeMessages ==
    /\ sweep.op = "purge" /\ sweep.pc = "messages"
    /\ messages' = DeleteExpiredMessages(messages, sweep.date)
    /\ sweep' = idle
    /\ lastSweep' = SweepDone(sweep.removed \/ messages' # messages)
    /\ UNCHANGED <<variant, now, keys, req, nextSn, life, codec, viewer>>

----------------------------------------------------------------------------
\* The service as deployed: one server process.  Every handler is a synchronous
\* function, so Bun runs it to completion before the next request is taken, and
\* the sweep runs between requests; only the clock moves inside a handler.

Next ==
    \/ TickMs
    \/ TickTtl
    \/ \E c \in SerialCallers, post \in Posts :
          Quiet /\ PostMessage(c, post.body, post.headers)
    \/ \E c \in SerialCallers : SetExpires(c)
    \/ \E c \in SerialCallers : SetInsert(c)
    \/ \E c \in SerialCallers : SetInsertKey(c)
    \/ \E c \in SerialCallers, id \in Ids : Quiet /\ Available(c, id)
    \/ \E c \in SerialCallers, id \in Ids : Quiet /\ Message(c, id)
    \/ \E c \in SerialCallers : GetKey(c)
    \/ \E c \in SerialCallers : Destroy(c)
    \/ \E c \in SerialCallers : Respond(c)
    \/ Quiet /\ PurgeNow
    \/ PurgeKeys
    \/ PurgeMessages

Spec == Init /\ [][Next]_vars

\* Several processes on the same database file (more than one server, or a
\* sweep run from outside the server): their statements interleave.  The
\* requests are the ones that write: POST /message and GET /message/:id.
ConcurrentNext ==
    \/ TickMs
    \/ TickTtl
    \/ \E c \in ConcurrentWriters, post \in ConcurrentPosts :
          PostMessage(c, post.body, post.headers)
    \/ \E c \in Callers : SetExpires(c)
    \/ \E c \in Callers : SetInsert(c)
    \/ \E c \in Callers : SetInsertKey(c)
    \/ \E c \in Callers, id \in Ids : Message(c, id)
    \/ \E c \in Callers : GetKey(c)
    \/ \E c \in Callers : Destroy(c)
    \/ \E c \in Callers : Respond(c)
    \/ PurgeNow
    \/ PurgeKeys
    \/ PurgeMessages

SpecConcurrent == Init /\ [][ConcurrentNext]_vars

\* The service with a sweep that keeps running.  Nothing in the repository calls
\* purgeExpired: the scheduler that does is outside it, so the fairness below is
\* the assumption under which the store is said to be cleaned: the clock keeps
\* advancing, the sweep is started again and again, and a handler or a sweep
\* that has started runs to its end.  Creates stop one TTL before the clock does,
\* so that the clock passes the expiresAt of every record.

\* the last TTL the clock advances, after the last create
TickLast ==
    /\ Quiet
    /\ (now \div ExpiresAt(0)) = MaxDays
    /\ now' = ExpiresAt(now)
    /\ lastSweep' = null
    /\ UNCHANGED <<variant, messages, keys, req, sweep, nextSn, life, codec, viewer>>

LiveNext ==
    \/ TickMs
    \/ TickTtl
    \/ TickLast
    \/ \E c \in SerialCallers, post \in Posts :
          /\ Quiet
          /\ (now \div ExpiresAt(0)) < MaxDays
          /\ PostMessage(c, post.body, post.headers)
    \/ \E c \in SerialCallers : SetExpires(c)
    \/ \E c \in SerialCallers : SetInsert(c)
    \/ \E c \in SerialCallers : SetInsertKey(c)
    \/ \E c \in SerialCallers, id \in Ids : Quiet /\ Message(c, id)
    \/ \E c \in SerialCallers : GetKey(c)
    \/ \E c \in SerialCallers : Destroy(c)
    \/ \E c \in SerialCallers : Respond(c)
    \/ Quiet /\ PurgeNow
    \/ PurgeKeys
    \/ PurgeMessages

LiveFairness ==
    /\ \A c \in SerialCallers :
          WF_vars(SetExpires(c) \/ SetInsert(c) \/ SetInsertKey(c)
                  \/ GetKey(c) \/ Destroy(c) \/ Respond(c))
    /\ WF_vars(PurgeKeys \/ PurgeMessages)
    /\ SF_vars(TickTtl \/ TickLast)
    /\ SF_vars(Quiet /\ PurgeNow)

SpecLive == Init /\ [][LiveNext]_vars /\ LiveFairness

----------------------------------------------------------------------------
\* The codec alone: a plaintext and a key from generateKey(plaintext.length),
\* through Messages.set's transform and then the viewer's

\* the plaintexts: every string of at most MaxLen code units
Plaintexts == UNION {[1..n -> CodeUnits] : n \in 0..MaxLen}

CodecStart(message, key) ==
    /\ codec.stage \in {"off", "decrypted"}
    /\ codec' = [stage |-> "plain", message |-> message, key |-> key]
    /\ UNCHANGED <<variant, now, messages, keys, req, sweep, nextSn, life, lastSweep, viewer>>

\* Messages.set computes encryptedMessage
CodecEncrypt ==
    /\ codec.stage = "plain"
    /\ codec' = [stage |-> "encrypted", message |-> codec.message, key |-> codec.key,
                 encryptedMessage |-> Encrypt(codec.message, codec.key)]
    /\ UNCHANGED <<variant, now, messages, keys, req, sweep, nextSn, life, lastSweep, viewer>>

\* fetchMessage computes decryptedMessage from response.body.message and .key
CodecDecrypt ==
    /\ codec.stage = "encrypted"
    /\ codec' = [stage |-> "decrypted", message |-> codec.message, key |-> codec.key,
                 encryptedMessage |-> codec.encryptedMessage,
                 decryptedMessage |-> Decrypt(codec.encryptedMessage, codec.key)]
    /\ UNCHANGED <<variant, now, messages, keys, req, sweep, nextSn, life, lastSweep, viewer>>

CodecNext ==
    \/ \E message \in Plaintexts :
          \E key \in generateKey(Len(message)) : CodecStart(message, key)
    \/ CodecEncrypt
    \/ CodecDecrypt

SpecCodec == Init /\ [][CodecNext]_vars

----------------------------------------------------------------------------
\* The viewer page: one MessageContent component, from mount to unmount.
\* React runs the effect after the mount and again whenever params.id has
\* changed (under StrictMode once more after the mount); here the effect may
\* run at any time while the component is mounted, which covers them all.

\* the responses of GET /message/:id that getMessageService may resolve with
ViewerResponses ==
    {[status |-> 200, body |-> [message |-> Encrypt(<<ch>>, key), key |-> key]] :
        ch \in CodeUnits, key \in SampledKeys(1)}

\* the effect without the ref: if (params.id) fetchMessage(params.id)
ShouldFetchUnguarded(paramsId, hasFetched) == paramsId # undefined

\* useEffect: if (params.id && !hasFetched.current)
ShouldFetch(paramsId, hasFetched) == paramsId # undefined /\ ~hasFetched

\* the component mounts: useState(null), useState(null), useState(true),
\* useRef(false); requests lists the ids of the GET /message/:id it has issued
ViewerMount(paramsId) ==
    /\ ~viewer.mounted
    /\ viewer' = [mounted |-> TRUE, paramsId |-> paramsId, hasFetched |-> FALSE,
                  message |-> null, error |-> null, loading |-> TRUE,
                  pending |-> FALSE, effects |-> 0, requests |-> << >>]
    /\ UNCHANGED <<variant, now, messages, keys, req, sweep, nextSn, life, lastSweep, codec>>

\* the route's :id changes while the component stays mounted
ViewerNavigate(paramsId) ==
    /\ viewer.mounted
    /\ paramsId # viewer.paramsId
    /\ viewer' = [viewer EXCEPT !.paramsId = paramsId]
    /\ UNCHANGED <<variant, now, messages, keys, req, sweep, nextSn, life, lastSweep, codec>>

\* the effect runs: hasFetched.current = true; fetchMessage(params.id) issues
\* the GET up to its await
ViewerEffect ==
    /\ viewer.mounted
    /\ viewer.effects < MaxEffects
    /\ IF ShouldFetch(viewer.paramsId, viewer.hasFetched)
       THEN viewer' = [viewer EXCEPT !.effects = @ + 1, !.hasFetched = TRUE,
                                     !.pending = TRUE,
                                     !.requests = Append(@, viewer.paramsId)]
       ELSE viewer' = [viewer EXCEPT !.effects = @ + 1]
    /\ UNCHANGED <<variant, now, messages, keys, req, sweep, nextSn, life, lastSweep, codec>>

\* the GET resolves: setMessage(decryptedMessage); finally setLoading(false)
ViewerResolve(response) ==
    /\ viewer.mounted /\ viewer.pending
    /\ viewer' = [viewer EXCEPT !.pending = FALSE, !.loading = FALSE,
                                !.message = [text |-> Decrypt(response.body.message,
                                                             response.body.key)]]
    /\ UNCHANGED <<variant, now, messages, keys, req, sweep, nextSn, life, lastSweep, codec>>

\* the GET rejects (404): setError(...); finally setLoading(false)
ViewerReject ==
    /\ viewer.mounted /\ viewer.pending
    /\ viewer' = [viewer EXCEPT !.pending = FALSE, !.loading = FALSE,
                                !.error = [text |-> "Failed to fetch the message. It might have expired."]]
    /\ UNCHANGED <<variant, now, messages, keys, req, sweep, nextSn, life, lastSweep, codec>>

\* the component unmounts: its state and its ref are gone
ViewerUnmount ==
    /\ viewer.mounted
    /\ viewer' = NoViewer
    /\ UNCHANGED <<variant, now, messages, keys, req, sweep, nextSn, life, lastSweep, codec>>

ViewerNext ==
    \/ \E paramsId \in Ids \cup {undefined} : ViewerMount(paramsId)
    \/ \E paramsId \in Ids \cup {undefined} : ViewerNavigate(paramsId)
    \/ ViewerEffect
    \/ \E response \in ViewerResponses : ViewerResolve(response)
    \/ ViewerReject
    \/ ViewerUnmount

SpecViewer == Init /\ [][ViewerNext]_vars

----------------------------------------------------------------------------
\* The claims

\* caller c holds the response of a finished GET /message/:id
Fetched(c) == req[c].op = "message" /\ req[c].pc = "done"

\* caller c holds the response of a finished GET /available/:id
Probed(c) == req[c].op = "available" /\ req[c].pc = "done"

\* the plaintext the viewer shows for a 200 response of GET /message/:id
Shown(response) == Decrypt(response.body.message, response.body.key)

\* C1: read-once delivery.  When GET /message/:id answers for an id that
\* create returned: if the record was not consumed and has not expired, the
\* answer is 200 and decodes to exactly the posted plaintext; if the record was
\* already consumed, the answer is 404.
C1_ReadOnceDelivery ==
    [][\A c \in Callers :
          (req[c].op = "message" /\ req[c].pc = "destroy" /\ req'[c].pc = "done"
           /\ life[req[c].id] # null)
          => LET born == life[req[c].id]
                 response == req'[c].response
             IN  /\ (~born.consumed /\ born.expiresAt >= now)
                       => (response.status = 200 /\ Shown(response) = born.body)
                 /\ born.consumed => response.status = 404]_vars

C3_ExpiredFetchNotFound ==
    \A c \in Callers :
        (Fetched(c) /\ req[c].response.status = 200)
        => ~(req[c].response.body.expiresAt < req[c].at)

\* C4: exists over the lifecycle.  GET /available/:id for an id that create
\* returned answers 200 while the record is neither consumed nor expired, 404
\* once it was consumed, and 404 once its expiresAt has passed.
C4_ExistsLifecycle ==
    \A c \in Callers :
        (Probed(c) /\ life[req[c].id] # null)
        => LET born == life[req[c].id]
               exists == req[c].response.status = 200
           IN  /\ (~born.consumed /\ born.expiresAt >= now) => exists
               /\ born.consumed => ~exists
               /\ born.expiresAt < req[c].at => ~exists

\* C5: exists is non-consuming.  No statement of a GET /available/:id handler
\* changes the messages table or the keys table.
C5_ExistsNonConsuming ==
    [][\A c \in Callers :
          (req'[c] # req[c] /\ (req[c].op = "available" \/ req'[c].op = "available"))
          => UNCHANGED <<messages, keys>>]_vars

\* a GET /available/:id has answered 200 and the record is still retrievable
C5_Witness ==
    \E c \in Callers :
        Probed(c) /\ req[c].response.status = 200 /\ Get(req[c].id) # null

\* C6: purge exactness.  No statement of a sweep run at `date` changes what get
\* returns for a record with expiresAt >= date, and when the sweep is over no
\* row with expiresAt < date is left and no such record is retrievable.
C6_PurgeExactness ==
    [][sweep.op = "purge"
       => \A id \in Ids :
             /\ (Get(id) # null /\ Get(id).expiresAt >= sweep.date)
                   => GetOn(messages', keys', id) = Get(id)
             /\ (sweep' = idle /\ messages[id] # null
                 /\ messages[id].expiresAt < sweep.date)
                   => (messages'[id] = null /\ keys'[id] = null)]_vars

\* C7: consumption removes all stored data.  While a caller holds a 200
\* response of GET /message/:id, no table has a row with that id.
C7_ConsumedEverywhere ==
    \A c \in Callers :
        (Fetched(c) /\ req[c].response.status = 200)
        => (messages[req[c].id] = null /\ keys[req[c].id] = null)

\* the id was never returned by create, or its record was consumed
Unknown(id) == life[id] = null \/ life[id].consumed

\* C8: NotFound is side-effect free.  Every statement of a
\* GET /message/:id or GET /available/:id handler for an id that was never
\* created or was already consumed leaves both tables as they are, and the
\* handler answers 404.
C8_NotFoundNoEffect ==
    [][\A c \in Callers :
          LET r == IF req[c] = idle THEN req'[c] ELSE req[c] IN
          (req'[c] # req[c] /\ r.op \in {"message", "available"} /\ Unknown(r.id))
          => /\ UNCHANGED <<messages, keys>>
             /\ (req'[c] # idle /\ req'[c].pc = "done") => req'[c].response.status = 404]_vars

\* a GET /message/:id has answered 404 for a consumed id while another record
\* is live
C8_Witness ==
    \E c \in Callers :
        /\ Fetched(c) /\ req[c].response.status = 404
        /\ life[req[c].id] # null /\ life[req[c].id].consumed
        /\ \E id \in Ids : id # req[c].id /\ Get(id) # null

\* C9: codec round trip.  The viewer's transform applied to the output of
\* Messages.set's transform, with the same generated key, gives the plaintext
\* back, and Messages.set's transform undoes itself.
C9_CodecRoundTrip ==
    /\ codec.stage = "decrypted" => codec.decryptedMessage = codec.message
    /\ codec.stage \in {"encrypted", "decrypted"}
          => Encrypt(codec.encryptedMessage, codec.key) = codec.message

\* a non-empty plaintext of full length came back through a transform that
\* changed it
C9_Witness ==
    /\ codec.stage = "decrypted"
    /\ Len(codec.message) = MaxLen
    /\ codec.encryptedMessage # codec.message

\* the empty plaintext came back
C9_WitnessEmpty == codec.stage = "decrypted" /\ codec.message = << >>

\* C10: purge idempotence.  A sweep that follows a completed sweep with the
\* same `now`, with no write to the store between them, changes neither table.
C10_PurgeIdempotent ==
    [][(sweep.op = "purge" /\ lastSweep # null /\ lastSweep.date = sweep.date)
       => UNCHANGED <<messages, keys>>]_vars

\* a second sweep with the same `now` completed after a first that deleted rows
C10_Witness ==
    lastSweep # null /\ lastSweep.runs = 2 /\ lastSweep.removed

\* the rows of id belong to a create that read the clock for createdAt no
\* earlier than the sweep in flight read it for its `now`
Fresh(id) ==
    /\ sweep.op = "purge"
    /\ messages[id] # null
    /\ messages[id].createdAt >= sweep.date

\* the sweep's part of C11: no statement of a sweep deletes or changes the
\* messages row or the keys row of a record whose create started after the sweep
\* took its `now` (also between the create's two inserts and between the sweep's
\* two deletes), and what get returns for the record is the same after the
\* statement as before it
C11_PurgeSparesFresh ==
    [][(sweep.op = "purge" /\ sweep' # sweep)
       => \A id \in Ids :
             Fresh(id) => /\ messages'[id] = messages[id]
                          /\ keys'[id] = keys[id]
                          /\ GetOn(messages', keys', id) = Get(id)]_vars

\* split variant: a sweep that has deleted keys is between its two deletes while
\* a create that started after the sweep's clock read is between its two inserts
C11_Witness ==
    /\ variant = "split"
    /\ sweep.op = "purge" /\ sweep.pc = "messages" /\ sweep.removed
    /\ \E c \in Callers :
          /\ req[c].op = "post" /\ req[c].pc = "insertKey"
          /\ Fresh(req[c].id)
          /\ keys[req[c].id] = null

\* a sweep is between its two deletes while a record created after the sweep's
\* clock read is complete and retrievable
C11_WitnessComplete ==
    /\ sweep.op = "purge" /\ sweep.pc = "messages"
    /\ \E id \in Ids : Fresh(id) /\ Get(id) # null

\* while a sweep is in flight, no two callers hold a 200 response of
\* GET /message/:id for the same record created after the sweep's clock read
C11_FreshDeliveredOnce ==
    \A c \in Callers, d \in Callers :
        (c # d /\ sweep.op = "purge" /\ Fetched(c) /\ Fetched(d)
         /\ req[c].response.status = 200 /\ req[d].response.status = 200
         /\ req[c].response.body.createdAt >= sweep.date)
        => req[c].response.body.sn # req[d].response.body.sn

C12_FixedTtl ==
    \A id \in Ids :
        messages[id] # null
        => messages[id].expiresAt = messages[id].createdAt + expires * 1000

\* a stored record whose two clock reads fell in the same millisecond
C12_SameMillisecond ==
    \E id \in Ids :
        /\ messages[id] # null
        /\ messages[id].expiresAt = ExpiresAt(messages[id].createdAt)

\* C13: id uniqueness.  An INSERT of POST /message whose generated id is the id
\* of a row already in the table leaves both tables as they are and the request
\* fails (500); an INSERT that is accepted puts its row under an id that had no
\* row, so at no time do two records in storage share an id.
C13_IdUnique ==
    [][\A c \in Callers :
          (req[c].op = "post" /\ req'[c] # req[c])
          => LET r == req[c] IN
             /\ (r.pc = "insert" /\ messages[r.id] # null)
                   => (UNCHANGED <<messages, keys>> /\ req'[c].response.status = 500)
             /\ (r.pc = "insertKey" /\ keys[r.id] # null)
                   => (UNCHANGED <<messages, keys>> /\ req'[c].response.status = 500)
             /\ (r.pc = "insert" /\ messages'[r.id] # messages[r.id])
                   => (messages[r.id] = null /\ messages'[r.id].id = r.id)
             /\ (r.pc = "insertKey" /\ keys'[r.id] # keys[r.id])
                   => (keys[r.id] = null /\ keys'[r.id].id = r.id)]_vars

\* a POST /message whose id collided has failed and the record that held the id
\* is still retrievable
C13_Witness ==
    \E c \in Callers :
        /\ req[c].op = "post" /\ req[c].pc = "done"
        /\ req[c].response.status = 500
        /\ Get(req[c].id) # null
        /\ life[req[c].id] # null /\ Get(req[c].id).sn = life[req[c].id].sn

\* C14: immutability.  In every step of POST /message, GET /available/:id,
\* GET /message/:id (for any id) and the sweep, a row of the messages table or
\* of the keys table either stays exactly as it is (ciphertext, key, createdAt,
\* expiresAt, ipReader, ipWriter, userAgent) or is deleted, and what get returns
\* for an id either stays as it is or becomes null.
C14_Immutable ==
    [][\A id \in Ids :
          /\ messages[id] # null => messages'[id] \in {messages[id], null}
          /\ keys[id] # null => keys'[id] \in {keys[id], null}
          /\ Get(id) # null => GetOn(messages', keys', id) \in {Get(id), null}]_vars

\* a record was fetched and deleted while the other record in storage, created
\* with other headers, stayed
C14_Witness ==
    \E c \in Callers, id \in Ids :
        /\ Fetched(c) /\ req[c].response.status = 200 /\ req[c].id # id
        /\ Get(req[c].id) = null
        /\ Get(id) # null
        /\ Get(id).userAgent # req[c].response.body.userAgent

\* C15: key length.  The key of every retrievable record has the same length as
\* the plaintext the client posted, and as the text the key was generated for
\* (the sanitised plaintext that set() received).
C15_KeyLength ==
    \A id \in Ids :
        Get(id) # null
        => /\ Len(Get(id).key) = Len(Get(id).body)
           /\ Len(Get(id).key) = Len(Get(id).message)

\* the lengths the code gives: two hex digits per byte of generateKey(length),
\* where length is that of the sanitised plaintext (also that of the ciphertext)
C15_KeyIsTwiceAsLong ==
    \A id \in Ids :
        Get(id) # null => Len(Get(id).key) = 2 * Len(Get(id).message)

\* C16: eventual removal.  With the clock advancing and the sweep started
\* again and again, every id that has a row in any table comes to have no row
\* in the messages table and no row in the keys table, whether its record was
\* fetched or never read.
C16_EventualRemoval ==
    \A id \in Ids :
        (messages[id] # null \/ keys[id] # null)
            ~> (messages[id] = null /\ keys[id] = null)

\* split variant: a record was fetched, its messages row stayed behind, and a
\* sweep after its expiresAt has removed that row
C16_Witness ==
    /\ variant = "split"
    /\ lastSweep # null /\ lastSweep.removed
    /\ \E id \in Ids :
          /\ life[id] # null /\ life[id].consumed
          /\ life[id].expiresAt < lastSweep.date
          /\ messages[id] = null /\ keys[id] = null

\* a record that was never read has been removed by a sweep after its expiresAt
C16_WitnessUnread ==
    /\ lastSweep # null /\ lastSweep.removed
    /\ \E id \in Ids :
          /\ life[id] # null /\ ~life[id].consumed
          /\ life[id].expiresAt < lastSweep.date
          /\ messages[id] = null /\ keys[id] = null

\* C17: no orphan keys.  In the split-table store, with set, get, destroy and
\* purgeExpired each run to completion, every row of the keys table has a row
\* with the same id in the messages table, and get(id), as GET /available/:id
\* reports it, is non-null exactly when both rows exist.
C17_NoOrphanKeys ==
    variant = "split"
    => /\ \A id \in Ids :
             keys[id] # null
             => (messages[id] # null /\ messages[id].id = keys[id].id)
       /\ \A c \in Callers :
             Probed(c)
             => (req[c].response.status = 200
                    <=> (messages[req[c].id] # null /\ keys[req[c].id] # null))

\* split variant: get has answered null for an id whose messages row is there
\* without its keys row, while another id has both rows
C17_Witness ==
    /\ variant = "split"
    /\ \E c \in Callers :
          /\ Probed(c) /\ req[c].response.status = 404
          /\ messages[req[c].id] # null /\ keys[req[c].id] = null
          /\ \E id \in Ids : keys[id] # null

\* split variant: a sweep has deleted the two rows of an expired record that
\* was never read
C17_WitnessSwept ==
    /\ variant = "split"
    /\ lastSweep # null /\ lastSweep.removed
    /\ \E id \in Ids :
          /\ life[id] # null /\ ~life[id].consumed
          /\ messages[id] = null /\ keys[id] = null

\* C18: single fetch per viewer.  A mounted MessageContent component has issued
\* at most one GET /message/:id, however often its effect has run and whatever
\* params.id has become.
C18_SingleFetch ==
    viewer.mounted => Len(viewer.requests) <= 1

\* the effect has run again after params.id changed to another id, and the one
\* request of the component is still the first
C18_Witness ==
    /\ viewer.mounted
    /\ viewer.effects >= 2
    /\ Len(viewer.requests) = 1
    /\ viewer.paramsId # undefined
    /\ viewer.paramsId # viewer.requests[1]
    /\ viewer.message # null

====
